---- MODULE Spec2Model ----
(***************************************************************************)
(* abserve: a minimal HTTP server that serves one "virtual" resource from  *)
(* memory (main.go).  The resource is read once from standard input or,    *)
(* with -p, again and again from a FIFO; with -d every other path is       *)
(* served from a directory.                                                *)
(*                                                                         *)
(* Modelled: the process (main, the recacheLoop goroutine, the interrupt   *)
(* goroutine, the request handlers of net/http, one goroutine each), the   *)
(* content cache with its mutex, and the environment the program talks to: *)
(* the wall clock, the FIFO with its writers, standard input, the disk     *)
(* below the served directory, the interrupt signal.                       *)
(*                                                                         *)
(* Strings are sequences of one-character strings; a payload is a sequence *)
(* of bytes (numbers).  Time is counted in ticks, TicksPerSec to a second. *)
(***************************************************************************)
EXTENDS Integers, Sequences, FiniteSets, TLC

\* ------------------------------------------------------------- bounds
\* Clock ticks per second: time.Now() has sub-second precision, an HTTP date
\* (Last-Modified, If-Modified-Since) has whole seconds.
TicksPerSec == 2
\* The last tick the clock reaches.
MaxTime == 5
\* How many payloads the writers send down the FIFO, one after the other.
NumWrites == 2

\* ------------------------------------------------------------- values
None == "none"
Clients == {"c1", "c2"}
Refreshers == {"main", "loop"}

\* The payload of the i-th writer: two bytes, written one write(2) at a time.
\* Payload(0) is what standard input holds.
Payload(i) == <<10 * i + 1, 10 * i + 2>>

\* The readings of the clock while the process runs; 0 is the zero time.Time.
Ticks == TicksPerSec..MaxTime
\* time.Time.Truncate(time.Second), and the second an HTTP date names.
Truncate(t) == t \div TicksPerSec
Seconds == {Truncate(t) : t \in Ticks}

\* ------------------------------------------------------------- paths
Slash == "/"
\* strings.HasPrefix
HasPrefix(s, p) == Len(s) >= Len(p) /\ SubSeq(s, 1, Len(p)) = p

\* filepath.Clean on names without "." and ".." elements: runs of
\* separators collapse to one and a trailing separator goes, except in "/".
RECURSIVE Squeeze(_)
Squeeze(s) ==
    IF Len(s) <= 1 THEN s
    ELSE IF s[1] = Slash /\ s[2] = Slash THEN Squeeze(Tail(s))
    ELSE <<s[1]>> \o Squeeze(Tail(s))

Clean(s) ==
    LET q == Squeeze(s)
    IN  IF q = <<>> THEN <<".">>
        ELSE IF Len(q) > 1 /\ q[Len(q)] = Slash THEN SubSeq(q, 1, Len(q) - 1)
        ELSE q

\* filepath.Join(dir, p) for a nonempty dir: the elements joined by a
\* separator, then cleaned.  (Empty elements are ignored.)
Join(dir, p) ==
    IF dir = <<>> THEN (IF p = <<>> THEN <<>> ELSE Clean(p))
    ELSE IF p = <<>> THEN Clean(dir)
    ELSE Clean(dir \o <<Slash>> \o p)

\* ------------------------------------------------------------- environment
\* The file system: what the names given to -p are, and what lies below the
\* directory given to -d.
FifoName == <<"f">>
FileName == <<"r">>
GoneName == <<"g">>
FsKind(name) ==
    IF name = FifoName THEN "fifo"
    ELSE IF name = FileName THEN "regular"
    ELSE "missing"

DirName == <<"w">>
\* w is a directory that holds the file d.
Disk == (<<"w", Slash, "d">> :> <<91>>) @@ (<<"w">> :> <<92>>)

\* The command lines the process is started with: the flags as the flag
\* package sees them (bad: one it does not know), and the positional arguments.
CmdLine(bad, help, version, p, d, args) ==
    [bad |-> bad, help |-> help, version |-> version, p |-> p, d |-> d, args |-> args]
CmdLines ==
    { CmdLine(FALSE, FALSE, FALSE, <<>>, <<>>, <<>>),
      CmdLine(TRUE, FALSE, FALSE, <<>>, <<>>, <<>>),
      CmdLine(FALSE, TRUE, FALSE, <<>>, <<>>, <<>>),
      CmdLine(FALSE, FALSE, TRUE, FifoName, <<>>, <<>>),
      CmdLine(FALSE, FALSE, FALSE, <<>>, <<>>, << <<"d">>, <<"x">> >>),
      CmdLine(FALSE, FALSE, FALSE, <<>>, DirName, << <<"d">> >>),
      CmdLine(FALSE, FALSE, FALSE, FifoName, <<>>, << <<Slash, "d">> >>),
      CmdLine(FALSE, FALSE, FALSE, FifoName, DirName, <<>>),
      CmdLine(FALSE, FALSE, FALSE, FileName, <<>>, <<>>),
      CmdLine(FALSE, FALSE, FALSE, GoneName, DirName, << <<Slash, "d">> >>) }

\* The URL paths clients ask for.
ReqPaths == { <<Slash>>, <<Slash, "d">>, <<Slash, "d", "x">> }
\* What a request for the virtual path carries: the method, If-Modified-Since
\* in seconds (NoIMS: none), and whether it has If-None-Match with an entity tag.
NoIMS == -1
Header(m, ims, inm) == [method |-> m, ims |-> ims, inm |-> inm]
Headers ==
    {Header("GET", i, FALSE) : i \in Seconds \cup {NoIMS}}
        \cup {Header("GET", Truncate(MaxTime), TRUE), Header("HEAD", NoIMS, FALSE)}

\* A response as the client gets it (the status, whether a body follows, the
\* body, Last-Modified in seconds), with what it was made from: the branch of
\* serve, the file name, the request's headers, the modtime argument.
Response(src, st, hasBody, body, lm, name, m, ims, inm, mt) ==
    [src |-> src, status |-> st, hasBody |-> hasBody, body |-> body,
     lastMod |-> lm, name |-> name,
     method |-> m, ims |-> ims, inm |-> inm, modtime |-> mt]
NoResponse == Response("none", 0, FALSE, <<>>, NoIMS, <<>>, "GET", NoIMS, FALSE, 0)

\* ------------------------------------------------------------- state
VARIABLES
    argv,       \* the command line
    ioerr,      \* history: the call of the process that returned an error
    pc,         \* where main and the recacheLoop goroutine are
    status,     \* the exit status of the process, -1 while it runs
    cause,      \* what ended the process
    notify,     \* signal.Notify(stop, os.Interrupt) has run
    sig,        \* the stop channel: "none" or "queued"
    path, directory, fifo,   \* the package variables parseArgs sets
    lock,       \* content.Mutex: "free" or its holder
    bytes,      \* content.Buffer
    lastMod,    \* content.lastMod, 0 for the zero time
    stdin,      \* what standard input still holds
    wpc, wIdx, wRem,   \* the writer at the FIFO: position, payload number, bytes left
    buf,        \* the bytes in the FIFO
    wake,       \* a writer has opened the FIFO since the blocked open began
    handles,    \* read handles the process holds on the FIFO
    garbage,    \* those of them no code refers to any more
    listening,  \* the HTTP listener is up
    rpc,        \* where each request handler is
    rq,         \* the request it serves
    modtime,    \* its modtime argument to http.ServeContent
    resp,       \* the response it has written
    lastFill    \* history: <<lastMod, bytes>> as the last completed fill left them

procVars == <<argv, ioerr, pc, status, cause, notify, sig>>
confVars == <<path, directory, fifo>>
cacheVars == <<lock, bytes, lastMod, lastFill>>
pipeVars == <<stdin, wpc, wIdx, wRem, buf, wake, handles, garbage>>
httpVars == <<listening, rpc, rq, modtime, resp>>
vars == <<procVars, confVars, cacheVars, pipeVars, httpVars>>

Running == status = -1

Init ==
    /\ argv \in CmdLines
    /\ ioerr = None
    /\ pc = [a \in Refreshers |-> IF a = "main" THEN "start" ELSE "off"]
    /\ status = -1
    /\ cause = None
    /\ notify = FALSE
    /\ sig = None
    /\ path = <<>>
    /\ directory = <<>>
    /\ fifo = <<>>
    /\ lock = "free"
    /\ bytes = <<>>
    /\ lastMod = 0
    /\ stdin = Payload(0)
    /\ wpc = "idle"
    /\ wIdx = 1
    /\ wRem = <<>>
    /\ buf = <<>>
    /\ wake = FALSE
    /\ handles = 0
    /\ garbage = 0
    /\ listening = FALSE
    /\ rpc = [c \in Clients |-> "idle"]
    /\ rq = [c \in Clients |-> <<>>]
    /\ modtime = [c \in Clients |-> 0]
    /\ resp = [c \in Clients |-> NoResponse]
    /\ lastFill = <<0, <<>>>>

\* The descriptors of the process: the connections of the requests in hand
\* and the handles on the FIFO.
descriptors == <<handles, garbage, buf, rpc, rq, modtime, resp>>

\* os.Exit(s): nothing of the process runs afterwards, and its descriptors
\* are closed: no request in hand gets any more of a response, and the FIFO
\* loses its bytes unless a writer still has it open.
Exit(s, why) ==
    /\ status' = s
    /\ cause' = why
    /\ handles' = 0
    /\ garbage' = 0
    /\ buf' = IF wpc = "idle" THEN <<>> ELSE buf
    /\ rpc' = [c \in Clients |-> "idle"]
    /\ rq' = [c \in Clients |-> <<>>]
    /\ modtime' = [c \in Clients |-> 0]
    /\ resp' = [c \in Clients |-> NoResponse]

\* The process goes on.
GoesOn == UNCHANGED <<status, cause>>

\* A fatal error that leaves with the status of a usage error.
FatalAsUsage == Exit(2, "fatal")

\* logger.Fatal / logger.Fatalf: the message, then os.Exit(1).
Fatal == Exit(1, "fatal")

\* A catch that lets every error pass.
CatchesNothing(e) == FALSE

\* catch(e) ends the process: it does for every error but nil.
Catches(e) == e # "nil"

\* The outcomes of a system call that may fail.
Errors == {"nil", "EIO"}
\* The call named what returned e.
Returned(what, e) == ioerr' = IF e # "nil" THEN what ELSE ioerr

\* ------------------------------------------------------------- start-up
\* main: the stop channel, the goroutine waiting on it, signal.Notify.
Notify ==
    /\ Running
    /\ pc["main"] = "start"
    /\ notify' = TRUE
    /\ pc' = [pc EXCEPT !["main"] = "parse"]
    /\ UNCHANGED <<argv, ioerr, status, cause, sig, confVars, cacheVars, pipeVars, httpVars>>

\* parseArgs, and main's choice between the FIFO and standard input.
\* getopt.Parse calls flag.Usage on a flag it does not know.
ParseArgs ==
    /\ Running
    /\ pc["main"] = "parse"
    /\ IF argv.bad
         THEN Exit(2, "usage") /\ UNCHANGED <<pc, confVars>>
       ELSE IF argv.help
         THEN Exit(2, "help") /\ UNCHANGED <<pc, confVars>>
       ELSE IF argv.version
         THEN Exit(2, "version") /\ UNCHANGED <<pc, confVars>>
       ELSE IF Len(argv.args) > 1
         THEN Exit(2, "usage") /\ UNCHANGED <<pc, confVars>>
       ELSE LET arg == IF argv.args = <<>> THEN <<>> ELSE argv.args[1]
            IN  /\ directory' = argv.d
                /\ fifo' = argv.p
                /\ path' = IF HasPrefix(arg, <<Slash>>) THEN arg ELSE <<Slash>> \o arg
                /\ pc' = [pc EXCEPT !["main"] = IF argv.p # <<>> THEN "open" ELSE "lock"]
                /\ GoesOn
                /\ UNCHANGED descriptors
    /\ UNCHANGED <<argv, ioerr, notify, sig, cacheVars, listening>>
    /\ UNCHANGED <<stdin, wpc, wIdx, wRem, wake>>

\* A main that goes from os.Open straight to the listener.
OpenedThenListen(a) == IF a = "main" THEN "listen" ELSE "lock"

\* Where a refresher goes once os.Open has returned its handle.
Opened(a) == IF a = "main" THEN "stat" ELSE "lock"

\* os.Open(fifo) and catch(err), in main and in recacheLoop.  Opening a FIFO
\* for reading counts the reader at once and returns when a writer has it open.
Open(a, e) ==
    /\ Running
    /\ pc[a] = "open"
    /\ FsKind(fifo) = "missing" => e # "nil"
    /\ Returned("open", e)
    /\ IF Catches(e)
         THEN Fatal /\ UNCHANGED <<pc, wake>>
       ELSE IF e # "nil" \/ FsKind(fifo) = "regular"
         THEN /\ pc' = [pc EXCEPT ![a] = Opened(a)]
              /\ GoesOn
              /\ UNCHANGED <<wake, descriptors>>
       ELSE /\ handles' = handles + 1
            /\ wake' = FALSE
            /\ pc' = [pc EXCEPT ![a] = IF wpc # "idle" THEN Opened(a) ELSE "opening"]
            /\ GoesOn
            /\ UNCHANGED <<garbage, buf, rpc, rq, modtime, resp>>
    /\ UNCHANGED <<argv, notify, sig, confVars, cacheVars, listening>>
    /\ UNCHANGED <<stdin, wpc, wIdx, wRem>>

\* The blocked open returns: a writer has come.
OpenReturns(a) ==
    /\ Running
    /\ pc[a] = "opening"
    /\ wake
    /\ pc' = [pc EXCEPT ![a] = Opened(a)]
    /\ UNCHANGED <<argv, ioerr, status, cause, notify, sig>>
    /\ UNCHANGED <<confVars, cacheVars, pipeVars, httpVars>>

\* A check of the file type that takes any file.
IsAnyFile(name) == TRUE

\* stat.Mode().Type() == fs.ModeNamedPipe
IsFifo(name) == FsKind(name) = "fifo"

\* main: f.Stat(), catch(err), and the check that the file is a FIFO.
Stat(e) ==
    /\ Running
    /\ pc["main"] = "stat"
    /\ Returned("stat", e)
    /\ IF Catches(e) \/ ~IsFifo(fifo)
         THEN Fatal /\ UNCHANGED pc
         ELSE /\ pc' = [pc EXCEPT !["main"] = "lock"]
              /\ GoesOn
              /\ UNCHANGED descriptors
    /\ UNCHANGED <<argv, notify, sig, confVars, cacheVars, listening>>
    /\ UNCHANGED <<stdin, wpc, wIdx, wRem, wake>>

\* ------------------------------------------------------------- cache(r)
\* A cache that does not wait for the mutex.
CacheLockNoWait(a) ==
    /\ Running
    /\ pc[a] = "lock"
    /\ lock' = a
    /\ pc' = [pc EXCEPT ![a] = "stamp"]
    /\ UNCHANGED <<argv, ioerr, status, cause, notify, sig, confVars, pipeVars, httpVars>>
    /\ UNCHANGED <<bytes, lastMod, lastFill>>

\* content.Lock(): blocks while the mutex is held.
CacheLock(a) ==
    /\ Running
    /\ pc[a] = "lock"
    /\ lock = "free"
    /\ lock' = a
    /\ pc' = [pc EXCEPT ![a] = "stamp"]
    /\ UNCHANGED <<argv, ioerr, status, cause, notify, sig, confVars, pipeVars, httpVars>>
    /\ UNCHANGED <<bytes, lastMod, lastFill>>

\* content.lastMod = time.Now(): the clock does not run backwards.
CacheStamp(a, t) ==
    /\ Running
    /\ pc[a] = "stamp"
    /\ t >= lastMod
    /\ lastMod' = t
    /\ pc' = [pc EXCEPT ![a] = "truncate"]
    /\ UNCHANGED <<argv, ioerr, status, cause, notify, sig, confVars, pipeVars, httpVars>>
    /\ UNCHANGED <<lock, bytes, lastFill>>

\* A cache that leaves the buffer as it is before it reads.
CacheTruncateKeeps(a) ==
    /\ Running
    /\ pc[a] = "truncate"
    /\ pc' = [pc EXCEPT ![a] = "read"]
    /\ UNCHANGED <<argv, ioerr, status, cause, notify, sig, confVars, pipeVars, httpVars>>
    /\ UNCHANGED <<lock, bytes, lastMod, lastFill>>

\* content.Truncate(0)
CacheTruncate(a) ==
    /\ Running
    /\ pc[a] = "truncate"
    /\ bytes' = <<>>
    /\ pc' = [pc EXCEPT ![a] = "read"]
    /\ UNCHANGED <<argv, ioerr, status, cause, notify, sig, confVars, pipeVars, httpVars>>
    /\ UNCHANGED <<lock, lastMod, lastFill>>

\* One Read of content.ReadFrom(r) that returns data: what the stream holds
\* (standard input hands its bytes over one at a time).
CacheRead(a) ==
    /\ Running
    /\ pc[a] = "read"
    /\ IF fifo = <<>>
         THEN /\ stdin # <<>>
              /\ bytes' = Append(bytes, Head(stdin))
              /\ stdin' = Tail(stdin)
              /\ buf' = buf
         ELSE /\ buf # <<>>
              /\ bytes' = bytes \o buf
              /\ buf' = <<>>
              /\ stdin' = stdin
    /\ UNCHANGED <<procVars, confVars, httpVars>>
    /\ UNCHANGED <<lock, lastMod, lastFill>>
    /\ UNCHANGED <<wpc, wIdx, wRem, wake, handles, garbage>>

\* A main that starts recacheLoop in either mode.
CachedThenGo(a) == IF a = "loop" THEN "open" ELSE "go"

\* Where a refresher goes when cache(r) returns.
Cached(a) ==
    IF a = "loop" THEN "open" ELSE IF fifo # <<>> THEN "go" ELSE "listen"

\* A cache that releases the mutex before catch(err) ends the process.
CacheReadEndUnlocks(a, e) ==
    /\ Running
    /\ pc[a] = "read"
    /\ e = "nil" => IF fifo = <<>> THEN stdin = <<>> ELSE buf = <<>> /\ wpc = "idle"
    /\ Returned("read", e)
    /\ IF Catches(e)
         THEN Fatal /\ lock' = "free" /\ UNCHANGED pc
         ELSE /\ pc' = [pc EXCEPT ![a] = "unlock"]
              /\ GoesOn
              /\ UNCHANGED <<lock, descriptors>>
    /\ UNCHANGED <<argv, notify, sig, confVars, bytes, lastMod, lastFill, listening>>
    /\ UNCHANGED <<stdin, wpc, wIdx, wRem, wake>>

\* The last Read of content.ReadFrom(r), then catch(err): end of stream (the
\* stream is empty and no writer has it open), err = nil, or an error.
CacheReadEnd(a, e) ==
    /\ Running
    /\ pc[a] = "read"
    /\ e = "nil" => IF fifo = <<>> THEN stdin = <<>> ELSE buf = <<>> /\ wpc = "idle"
    /\ Returned("read", e)
    /\ IF Catches(e)
         THEN Fatal /\ UNCHANGED pc
         ELSE /\ pc' = [pc EXCEPT ![a] = "unlock"]
              /\ GoesOn
              /\ UNCHANGED descriptors
    /\ UNCHANGED <<argv, notify, sig, confVars, cacheVars, listening>>
    /\ UNCHANGED <<stdin, wpc, wIdx, wRem, wake>>

\* A cache that returns with the mutex held.
CacheUnlockKept(a) ==
    /\ Running
    /\ pc[a] = "unlock"
    /\ lastFill' = <<lastMod, bytes>>
    /\ garbage' = IF fifo # <<>> THEN garbage + 1 ELSE garbage
    /\ pc' = [pc EXCEPT ![a] = Cached(a)]
    /\ UNCHANGED <<argv, ioerr, status, cause, notify, sig, confVars, httpVars>>
    /\ UNCHANGED <<lock, bytes, lastMod>>
    /\ UNCHANGED <<stdin, wpc, wIdx, wRem, buf, wake, handles>>

\* content.Unlock(), and cache returns: nothing refers to the handle any more.
CacheUnlock(a) ==
    /\ Running
    /\ pc[a] = "unlock"
    /\ lock' = "free"
    /\ lastFill' = <<lastMod, bytes>>
    /\ garbage' = IF fifo # <<>> THEN garbage + 1 ELSE garbage
    /\ pc' = [pc EXCEPT ![a] = Cached(a)]
    /\ UNCHANGED <<argv, ioerr, status, cause, notify, sig, confVars, httpVars>>
    /\ UNCHANGED <<bytes, lastMod>>
    /\ UNCHANGED <<stdin, wpc, wIdx, wRem, buf, wake, handles>>

\* main: go recacheLoop()
Go ==
    /\ Running
    /\ pc["main"] = "go"
    /\ pc' = [pc EXCEPT !["main"] = "listen", !["loop"] = "open"]
    /\ UNCHANGED <<argv, ioerr, status, cause, notify, sig>>
    /\ UNCHANGED <<confVars, cacheVars, pipeVars, httpVars>>

\* main: http.HandleFunc("/", serve) and http.ListenAndServe(address, nil),
\* which binds the address or returns an error to logger.Fatal.
Listen(e) ==
    /\ Running
    /\ pc["main"] = "listen"
    /\ Returned("listen", e)
    /\ IF e # "nil"
         THEN Fatal /\ UNCHANGED <<pc, listening>>
         ELSE /\ listening' = TRUE
              /\ pc' = [pc EXCEPT !["main"] = "serving"]
              /\ GoesOn
              /\ UNCHANGED descriptors
    /\ UNCHANGED <<argv, notify, sig, confVars, cacheVars>>
    /\ UNCHANGED <<stdin, wpc, wIdx, wRem, wake>>

\* http.ListenAndServe returns (it only ever returns an error): logger.Fatal.
ServeReturns ==
    /\ Running
    /\ pc["main"] = "serving"
    /\ ioerr' = "serve"
    /\ Fatal
    /\ UNCHANGED <<argv, pc, notify, sig, confVars, cacheVars, listening>>
    /\ UNCHANGED <<stdin, wpc, wIdx, wRem, wake>>

\* ------------------------------------------------------------- interrupt
\* An INT signal reaches the process: into the stop channel once
\* signal.Notify has run, and before that the default, death by the signal.
Interrupt ==
    /\ Running
    /\ sig = None
    /\ IF notify
         THEN sig' = "queued" /\ GoesOn /\ UNCHANGED descriptors
         ELSE Exit(130, "signal") /\ UNCHANGED sig
    /\ UNCHANGED <<argv, ioerr, pc, notify, confVars, cacheVars, listening>>
    /\ UNCHANGED <<stdin, wpc, wIdx, wRem, wake>>

\* An interrupt goroutine that takes the content mutex before it exits.
StopUnderLock ==
    /\ Running
    /\ sig = "queued"
    /\ lock = "free"
    /\ Exit(0, "interrupt")
    /\ UNCHANGED <<argv, ioerr, pc, notify, sig, confVars, cacheVars, listening>>
    /\ UNCHANGED <<stdin, wpc, wIdx, wRem, wake>>

\* The goroutine of main: <-stop, os.Exit(0).
Stop ==
    /\ Running
    /\ sig = "queued"
    /\ Exit(0, "interrupt")
    /\ UNCHANGED <<argv, ioerr, pc, notify, sig, confVars, cacheVars, listening>>
    /\ UNCHANGED <<stdin, wpc, wIdx, wRem, wake>>

\* ------------------------------------------------------------- the FIFO
\* A writer opens the FIFO for writing (echo B > fifo): counted at once, it
\* wakes a reader blocked in open, and returns when a reader has the FIFO open.
WriterOpen ==
    /\ Running
    /\ wpc = "idle"
    /\ wIdx <= NumWrites
    /\ wRem' = Payload(wIdx)
    /\ wake' = TRUE
    /\ wpc' = IF handles > 0 THEN "writing" ELSE "opening"
    /\ UNCHANGED <<procVars, confVars, cacheVars, httpVars>>
    /\ UNCHANGED <<stdin, wIdx, buf, handles, garbage>>

\* The writer's blocked open returns: a reader has come.
WriterOpenReturns ==
    /\ Running
    /\ wpc = "opening"
    /\ handles > 0
    /\ wpc' = "writing"
    /\ UNCHANGED <<procVars, confVars, cacheVars, httpVars>>
    /\ UNCHANGED <<stdin, wIdx, wRem, buf, wake, handles, garbage>>

\* The writer is gone: if that leaves the FIFO open nowhere, its bytes are lost.
WriterGone ==
    /\ wpc' = "idle"
    /\ wIdx' = wIdx + 1
    /\ wRem' = <<>>
    /\ buf' = IF handles = 0 THEN <<>> ELSE buf

\* One write(2) of the writer; with no reader left it dies of SIGPIPE.
WriterWrite ==
    /\ Running
    /\ wpc = "writing"
    /\ wRem # <<>>
    /\ IF handles = 0
         THEN WriterGone
         ELSE /\ buf' = Append(buf, Head(wRem))
              /\ wRem' = Tail(wRem)
              /\ UNCHANGED <<wpc, wIdx>>
    /\ UNCHANGED <<procVars, confVars, cacheVars, httpVars>>
    /\ UNCHANGED <<stdin, wake, handles, garbage>>

\* The writer has written its payload and closes the FIFO.
WriterClose ==
    /\ Running
    /\ wpc = "writing"
    /\ wRem = <<>>
    /\ WriterGone
    /\ UNCHANGED <<procVars, confVars, cacheVars, httpVars>>
    /\ UNCHANGED <<stdin, wake, handles, garbage>>

\* Neither cache nor its callers close the handle os.Open returned: an
\* *os.File nothing refers to is closed by its finalizer, when the garbage
\* collector gets to it.
Finalize ==
    /\ Running
    /\ garbage > 0
    /\ garbage' = garbage - 1
    /\ handles' = handles - 1
    /\ buf' = IF handles = 1 /\ wpc = "idle" THEN <<>> ELSE buf
    /\ UNCHANGED <<procVars, confVars, cacheVars, httpVars>>
    /\ UNCHANGED <<stdin, wpc, wIdx, wRem, wake>>

\* ------------------------------------------------------------- serve(w, r)

\* http.NotFound
NotFound == Response("notfound", 404, TRUE, <<>>, NoIMS, <<>>, "GET", NoIMS, FALSE, 0)

\* http.ServeFile(w, r, name) on a GET: the file of that name on the disk
\* (for a directory, its listing), or the file server's own not-found.
ServeFile(name) ==
    IF name \in DOMAIN Disk
      THEN Response("file", 200, TRUE, Disk[name], NoIMS, name, "GET", NoIMS, FALSE, 0)
      ELSE Response("file", 404, TRUE, <<>>, NoIMS, name, "GET", NoIMS, FALSE, 0)

\* time.Time.IsZero, for http.ServeContent
IsZeroTime(t) == t = 0

\* http.ServeContent(w, r, name, mt, content) for a GET or HEAD request with
\* If-Modified-Since ims (NoIMS: none) and, if inm, If-None-Match with an
\* entity tag: Last-Modified is mt in whole seconds; no ETag is set, so
\* If-None-Match never matches and makes If-Modified-Since ignored; otherwise
\* the response is 304 when mt, truncated to the second, is not after ims.
ServeContent(mt, content, m, ims, inm) ==
    LET lm == IF IsZeroTime(mt) THEN NoIMS ELSE Truncate(mt)
        notModified ==
            /\ ~inm
            /\ ims # NoIMS
            /\ ~IsZeroTime(mt)
            /\ Truncate(mt) <= ims
    IN  IF notModified
          THEN Response("cache", 304, FALSE, <<>>, lm, <<>>, m, ims, inm, mt)
          ELSE Response("cache", 200, m = "GET", IF m = "GET" THEN content ELSE <<>>,
                        lm, <<>>, m, ims, inm, mt)

\* A serve that answers every path from the cache.
RouteAllToCache(p) == "cache"

\* A serve that matches the virtual path as a prefix.
RouteByPrefix(p) ==
    IF HasPrefix(p, path) THEN "cache"
    ELSE IF directory = <<>> THEN "notfound"
    ELSE "file"

\* serve: which branch answers a request for URL path p.
Route(p) ==
    IF p = path THEN "cache"
    ELSE IF directory = <<>> THEN "notfound"
    ELSE "file"

\* A serve that hands the URL path to http.ServeFile as the file name.
TargetUnjoined(p) == p

\* serve: the name handed to http.ServeFile.
Target(p) == Join(directory, p)

\* A request for URL path p comes in and serve routes it; for any path but the
\* virtual one the whole handler runs here.
Arrive(c, p) ==
    /\ Running
    /\ listening
    /\ rpc[c] = "idle"
    /\ \A d \in Clients : (d = "c1" /\ c = "c2") => rpc[d] # "idle"
    /\ rq' = [rq EXCEPT ![c] = p]
    /\ IF Route(p) = "cache"
         THEN /\ rpc' = [rpc EXCEPT ![c] = "lock"]
              /\ resp' = resp
       ELSE IF Route(p) = "notfound"
         THEN /\ rpc' = [rpc EXCEPT ![c] = "written"]
              /\ resp' = [resp EXCEPT ![c] = NotFound]
       ELSE /\ rpc' = [rpc EXCEPT ![c] = "written"]
            /\ resp' = [resp EXCEPT ![c] = ServeFile(Target(p))]
    /\ UNCHANGED <<procVars, confVars, cacheVars, pipeVars, listening, modtime>>

\* A serve that does not wait for the mutex.
ServeLockNoWait(c) ==
    /\ Running
    /\ rpc[c] = "lock"
    /\ lock' = c
    /\ rpc' = [rpc EXCEPT ![c] = "stat"]
    /\ UNCHANGED <<procVars, confVars, pipeVars, listening, rq, modtime, resp>>
    /\ UNCHANGED <<bytes, lastMod, lastFill>>

\* serve: content.Lock()
ServeLock(c) ==
    /\ Running
    /\ rpc[c] = "lock"
    /\ lock = "free"
    /\ lock' = c
    /\ rpc' = [rpc EXCEPT ![c] = "stat"]
    /\ UNCHANGED <<procVars, confVars, pipeVars, listening, rq, modtime, resp>>
    /\ UNCHANGED <<bytes, lastMod, lastFill>>

\* A serve that hands http.ServeContent the zero time.
ServeStatZero(c) ==
    /\ Running
    /\ rpc[c] = "stat"
    /\ modtime' = [modtime EXCEPT ![c] = 0]
    /\ rpc' = [rpc EXCEPT ![c] = "content"]
    /\ UNCHANGED <<procVars, confVars, cacheVars, pipeVars, listening, rq, resp>>

\* serve: the argument content.lastMod
ServeStat(c) ==
    /\ Running
    /\ rpc[c] = "stat"
    /\ modtime' = [modtime EXCEPT ![c] = lastMod]
    /\ rpc' = [rpc EXCEPT ![c] = "content"]
    /\ UNCHANGED <<procVars, confVars, cacheVars, pipeVars, listening, rq, resp>>

\* serve: the argument content.Bytes() and http.ServeContent, which writes
\* the response from it.
ServeBytes(c, h) ==
    /\ Running
    /\ rpc[c] = "content"
    /\ resp' = [resp EXCEPT ![c] = ServeContent(modtime[c], bytes, h.method, h.ims, h.inm)]
    /\ rpc' = [rpc EXCEPT ![c] = "unlock"]
    /\ UNCHANGED <<procVars, confVars, cacheVars, pipeVars, listening, rq, modtime>>

\* A serve that returns with the mutex held.
ServeUnlockKept(c) ==
    /\ Running
    /\ rpc[c] = "unlock"
    /\ rpc' = [rpc EXCEPT ![c] = "idle"]
    /\ rq' = [rq EXCEPT ![c] = <<>>]
    /\ modtime' = [modtime EXCEPT ![c] = 0]
    /\ resp' = [resp EXCEPT ![c] = NoResponse]
    /\ UNCHANGED <<procVars, confVars, pipeVars, listening>>
    /\ UNCHANGED <<lock, bytes, lastMod, lastFill>>

\* serve: content.Unlock(), and the handler returns.
ServeUnlock(c) ==
    /\ Running
    /\ rpc[c] = "unlock"
    /\ lock' = "free"
    /\ rpc' = [rpc EXCEPT ![c] = "idle"]
    /\ rq' = [rq EXCEPT ![c] = <<>>]
    /\ modtime' = [modtime EXCEPT ![c] = 0]
    /\ resp' = [resp EXCEPT ![c] = NoResponse]
    /\ UNCHANGED <<procVars, confVars, pipeVars, listening>>
    /\ UNCHANGED <<bytes, lastMod, lastFill>>

\* serve returns, for a path that is not the virtual one.
Return(c) ==
    /\ Running
    /\ rpc[c] = "written"
    /\ rpc' = [rpc EXCEPT ![c] = "idle"]
    /\ rq' = [rq EXCEPT ![c] = <<>>]
    /\ resp' = [resp EXCEPT ![c] = NoResponse]
    /\ UNCHANGED <<procVars, confVars, cacheVars, pipeVars, listening, modtime>>

\* ------------------------------------------------------------- the program
Next ==
    \/ Notify
    \/ ParseArgs
    \/ \E a \in Refreshers, e \in Errors : Open(a, e)
    \/ \E a \in Refreshers : OpenReturns(a)
    \/ \E e \in Errors : Stat(e)
    \/ \E a \in Refreshers : CacheLock(a)
    \/ \E a \in Refreshers, t \in Ticks : CacheStamp(a, t)
    \/ \E a \in Refreshers : CacheTruncate(a)
    \/ \E a \in Refreshers : CacheRead(a)
    \/ \E a \in Refreshers, e \in Errors : CacheReadEnd(a, e)
    \/ \E a \in Refreshers : CacheUnlock(a)
    \/ Go
    \/ \E e \in Errors : Listen(e)
    \/ ServeReturns
    \/ Interrupt
    \/ Stop
    \/ WriterOpen
    \/ WriterOpenReturns
    \/ WriterWrite
    \/ WriterClose
    \/ Finalize
    \/ \E c \in Clients, p \in ReqPaths : Arrive(c, p)
    \/ \E c \in Clients : ServeLock(c)
    \/ \E c \in Clients : ServeStat(c)
    \/ \E c \in Clients, h \in Headers : ServeBytes(c, h)
    \/ \E c \in Clients : ServeUnlock(c)
    \/ \E c \in Clients : Return(c)

Spec == Init /\ [][Next]_vars

\* The Go scheduler runs a goroutine that can run: the one waiting on the
\* stop channel gets to its os.Exit(0).
FairSpec == Spec /\ WF_vars(Stop)

\* The steps of main and of the recacheLoop goroutine that return without an
\* error, but for content.Lock().
RefresherRuns(a) ==
    \/ a = "main" /\ (Notify \/ ParseArgs \/ Stat("nil") \/ Go \/ Listen("nil"))
    \/ Open(a, "nil")
    \/ OpenReturns(a)
    \/ \E t \in Ticks : CacheStamp(a, t)
    \/ CacheTruncate(a)
    \/ CacheRead(a)
    \/ CacheReadEnd(a, "nil")
    \/ CacheUnlock(a)
\* The steps of a request handler once it has the mutex or needs none: the
\* client reads what is written to it.
HandlerRuns(c) ==
    \/ ServeStat(c)
    \/ \E h \in Headers : ServeBytes(c, h)
    \/ ServeUnlock(c)
    \/ Return(c)
\* A writer that has opened the FIFO writes its payload and closes.
WriterRuns == WriterOpenReturns \/ WriterWrite \/ WriterClose

\* The Go scheduler runs every goroutine that can run, and sync.Mutex hands
\* the mutex to a goroutine that has waited for it (starvation mode), so who
\* waits in content.Lock() gets it if it is free again and again.  No writer
\* need ever come, no interrupt and no request either.
LiveSpec ==
    /\ Spec
    /\ WF_vars(Stop)
    /\ WF_vars(WriterRuns)
    /\ \A a \in Refreshers : WF_vars(RefresherRuns(a)) /\ SF_vars(CacheLock(a))
    /\ \A c \in Clients : WF_vars(HandlerRuns(c)) /\ SF_vars(ServeLock(c))

\* ------------------------------------------------------------- properties
\* The responses in hand that were served from the content cache.
FromCache(c) == resp[c].src = "cache"
FullBody(c) == FromCache(c) /\ resp[c].hasBody

\* C1 (snapshot atomicity): whatever the interleaving of fills and handlers,
\* the modification time a response was made from, its Last-Modified and its
\* body are those one completed fill left in the cache, never a mixture of
\* two fills and never a payload that is still being read.
C1_SnapshotAtomicity ==
    \A c \in Clients :
        FromCache(c) =>
            /\ resp[c].modtime = lastFill[1]
            /\ resp[c].lastMod = Truncate(lastFill[1])
            /\ resp[c].hasBody => resp[c].body = lastFill[2]

\* A response with the second version as its body is in hand while the poll
\* loop, with the third version arrived, waits for the mutex.
C1_Witness ==
    \E c \in Clients :
        /\ FullBody(c)
        /\ resp[c].body = Payload(1)
        /\ pc["loop"] = "lock"

\* The payloads whose writers have written them whole and closed the FIFO.
Written == {Payload(i) : i \in 1..(wIdx - 1)}
\* The number of the version a fill left, 0 for anything else.
Version(b) == IF \E i \in 1..NumWrites : Payload(i) = b
                THEN CHOOSE i \in 1..NumWrites : Payload(i) = b
                ELSE 0

\* C2 (poll refresh): in poll mode, with payloads A then B each written and
\* closed, every body a request gets is one whole written payload, and the
\* versions in the cache follow each other in the order written.
C2_PollRefresh ==
    [][/\ \A c \in Clients : (FullBody(c) /\ fifo # <<>>)' => (resp[c].body \in Written)'
       /\ (fifo # <<>> /\ lastFill[1] # 0) => Version(lastFill'[2]) >= Version(lastFill[2])]_vars

\* The responses in hand for a path that is not the virtual one.
Elsewhere(c) == rpc[c] = "written"

\* C3 (precedence): a request for exactly the virtual path is answered from
\* the cache and never by the directory or with not-found, with or without -d
\* and whatever the directory holds; a request for any other path, one that
\* has the virtual path as a prefix included, is never answered from the cache.
C3_Precedence ==
    \A c \in Clients :
        rpc[c] # "idle" =>
            /\ rq[c] = path => ~Elsewhere(c) /\ resp[c].src \in {"none", "cache"}
            /\ rq[c] # path => Elsewhere(c) /\ resp[c].src \in {"notfound", "file"}

\* The directory holds a file of the virtual path's name and the request for
\* it has its answer from the cache, while a request for a longer path is
\* answered by the directory.
C3_Witness ==
    \E c, d \in Clients :
        /\ FullBody(c)
        /\ Join(directory, path) \in DOMAIN Disk
        /\ Elsewhere(d)
        /\ HasPrefix(rq[d], path)
        /\ resp[d].src = "file"

\* C4 (other paths): the response to a request for any path but the virtual
\* one is not-found when there is no directory, and otherwise what the file
\* server makes of the directory joined with the path: the file of that name
\* on the disk, or the file server's not-found; never the cache content.
C4_OtherPaths ==
    \A c \in Clients :
        (rpc[c] # "idle" /\ rq[c] # path) =>
            IF directory = <<>>
              THEN resp[c].src = "notfound" /\ resp[c].status = 404
              ELSE LET name == Clean(directory \o <<Slash>> \o rq[c])
                   IN  /\ resp[c].src = "file"
                       /\ resp[c].name = name
                       /\ IF name \in DOMAIN Disk
                            THEN resp[c].status = 200 /\ resp[c].body = Disk[name]
                            ELSE resp[c].status = 404

\* The file d below the directory w is served for /d.
C4_Witness ==
    \E c \in Clients :
        /\ Elsewhere(c)
        /\ rq[c] = <<Slash, "d">>
        /\ resp[c].name = <<"w", Slash, "d">>
        /\ resp[c].status = 200
        /\ resp[c].body = <<91>>

\* A GET for the virtual path whose only precondition is If-Modified-Since.
ConditionalGet(c) ==
    /\ FromCache(c)
    /\ resp[c].method = "GET"
    /\ resp[c].ims # NoIMS
    /\ ~resp[c].inm

\* C5 as stated (conditional GET): If-Modified-Since at or after the cache's
\* lastModified gives not-modified without a body, an earlier one the full
\* body.  The header counts whole seconds, lastModified does not.
C5_AsStated ==
    \A c \in Clients :
        (FromCache(c) /\ resp[c].method = "GET" /\ resp[c].ims # NoIMS) =>
            IF resp[c].ims * TicksPerSec >= lastMod
              THEN resp[c].status = 304 /\ ~resp[c].hasBody
              ELSE resp[c].status = 200 /\ resp[c].hasBody /\ resp[c].body = bytes

\* C5 (conditional GET), amended: for a GET whose only precondition is
\* If-Modified-Since, a timestamp at or after the cache's lastModified
\* truncated to the second gives not-modified without a body, an earlier one
\* the full body.
C5_ConditionalGet ==
    \A c \in Clients :
        ConditionalGet(c) =>
            IF resp[c].ims >= Truncate(lastMod)
              THEN resp[c].status = 304 /\ ~resp[c].hasBody
              ELSE resp[c].status = 200 /\ resp[c].hasBody /\ resp[c].body = bytes

\* Not modified for the second the content was cached in, a fraction of a
\* second before the fill.
C5_Witness ==
    \E c \in Clients :
        /\ ConditionalGet(c)
        /\ resp[c].ims = Truncate(lastMod)
        /\ resp[c].ims * TicksPerSec < lastMod
        /\ resp[c].status = 304

\* C6 (named-pipe precondition): with -p naming anything but a FIFO, main
\* gets no further than the open and the type check, which end the process
\* with status 1: no fill begins and the listener never starts.
C6_NamedPipe ==
    (fifo # <<>> /\ FsKind(fifo) # "fifo") =>
        /\ pc["main"] \in {"open", "stat"}
        /\ pc["loop"] = "off"
        /\ lock = "free"
        /\ lastMod = 0
        /\ bytes = <<>>
        /\ ~listening
        /\ ~Running => \/ cause = "interrupt"
                       \/ cause = "fatal" /\ status = 1

\* The type check has ended the process for a regular file.
C6_Witness ==
    /\ fifo = FileName
    /\ pc["main"] = "stat"
    /\ cause = "fatal"
    /\ status = 1

\* The command lines parseArgs leaves with.
UsageLine == argv.bad \/ argv.help \/ argv.version \/ Len(argv.args) > 1

\* C7 (exit statuses): status 0 is the exit of the interrupt goroutine and
\* nothing else; a usage error, -h and --version exit with 2, and parseArgs
\* lets none of them pass; a failed call and any other fatal error exit with
\* a status that is neither 0 nor 2.
C7_ExitStatuses ==
    /\ status = 0 => cause = "interrupt" /\ sig = "queued"
    /\ cause \in {"usage", "help", "version"} => status = 2 /\ UsageLine
    /\ UsageLine => pc["main"] \in {"start", "parse"}
    /\ (ioerr # None \/ cause = "fatal") => status > 0 /\ status # 2

\* Two positional arguments: status 2.
C7_Witness ==
    /\ Len(argv.args) > 1
    /\ cause = "usage"
    /\ status = 2

\* C8 as stated (interrupt): once an interrupt has been delivered, the
\* process exits with status 0.
C8_AsStated ==
    (sig = "queued" /\ ~Running) => status = 0

\* C8 (interrupt), amended: an interrupt delivered after signal.Notify ends
\* the process whatever main, the poll loop and the handlers are doing and
\* whoever holds the mutex; the status is 0 unless a fatal error or a usage
\* exit ends the process first.
C8_Interrupt ==
    (sig = "queued") ~>
        (/\ ~Running
         /\ status \in {0, 1, 2}
         /\ status = 0 <=> cause = "interrupt")

\* The interrupt ended the process while a fill held the mutex, blocked on a
\* writer that had not closed the FIFO.
C8_Witness ==
    /\ cause = "interrupt"
    /\ status = 0
    /\ lock = "loop"
    /\ pc["loop"] = "read"
    /\ wpc = "writing"

\* The calls of the refresh source.
RefreshCalls == {"open", "read"}

\* C9 (fatal refresh errors): an error from opening or reading the source ends
\* the process at once with status 1, in either mode; nothing is opened, read
\* or cached afterwards.
C9_FatalRefresh ==
    [][ioerr' \in RefreshCalls =>
            /\ status' = 1
            /\ cause' = "fatal"
            /\ ioerr \in RefreshCalls =>
                   UNCHANGED <<pc, lock, bytes, lastMod, lastFill, handles, buf, stdin>>]_vars

\* A read error in a fill of the poll loop ended the process.
C9_Witness ==
    /\ ioerr = "read"
    /\ pc["loop"] = "read"
    /\ status = 1

\* main has read standard input to its end: one-shot mode, after the fill.
OneShotFilled == fifo = <<>> /\ pc["main"] \in {"listen", "serving"}

\* C10 (one-shot immutability): without -p the poll loop never starts and,
\* once the one fill of standard input has returned, no fill begins and the
\* bytes and lastMod of the cache never change: every request for the
\* virtual path gets what standard input held, with the time of that fill.
C10_OneShot ==
    [][/\ (fifo = <<>>)' => (pc["loop"] = "off")'
       /\ OneShotFilled =>
              /\ bytes' = bytes /\ lastMod' = lastMod /\ lastFill' = lastFill
              /\ lock' \notin Refreshers
              /\ bytes = Payload(0) /\ lastFill = <<lastMod, bytes>>
              /\ \A c \in Clients : FullBody(c)' => (resp[c].body = bytes)'
              /\ \A c \in Clients : FromCache(c)' => (resp[c].modtime = lastMod)']_vars

\* In one-shot mode a request has what standard input held.
C10_Witness ==
    \E c \in Clients :
        /\ OneShotFilled
        /\ FullBody(c)
        /\ resp[c].body = Payload(0)

\* A request in hand has been answered, from whichever branch of serve.
Answered(c) == resp[c].src # "none"

\* C11 (start-up ordering): no request is taken up, let alone answered,
\* before the initial fill has completed and main has got to the listener;
\* in poll mode a writer has by then written to the FIFO and closed it, and
\* a response from the cache is never made of the never-filled cache (the
\* zero modification time, no Last-Modified).
C11_StartupOrdering ==
    /\ listening => lastFill[1] # 0 /\ pc["main"] = "serving"
    /\ \A c \in Clients :
        /\ (rpc[c] # "idle" \/ Answered(c)) => listening
        /\ Answered(c) => (fifo # <<>> => wIdx > 1)
        /\ FromCache(c) => resp[c].modtime # 0 /\ resp[c].lastMod # NoIMS

\* In poll mode one payload has been written and a request is answered with it.
C11_Witness ==
    \E c \in Clients :
        /\ fifo # <<>>
        /\ wIdx = 2
        /\ wpc = "idle"
        /\ FullBody(c)
        /\ resp[c].body = Payload(1)

\* A fill is blocked in its read of the FIFO: a writer has the FIFO open.
BlockedRead == pc["loop"] = "read" /\ wpc = "writing"

\* C12 (a blocked read does not block the router): while the fill of the
\* poll loop waits in its read for a writer that has the FIFO open, a request
\* for the virtual path does not wait for the refresh task: the mutex it
\* needs is not held by the poll loop.
C12_BlockedRead ==
    \A c \in Clients : (rpc[c] = "lock" /\ BlockedRead) => lock # "loop"

\* The poll loop is blocked in os.Open: no writer has come.
BlockedOpen == pc["loop"] = "opening" /\ ~wake

\* C13 (a blocked open does not block the router): while the poll loop is
\* at or blocked in os.Open the refresh task does not hold the mutex and the
\* cache is as the last completed fill left it, so a request for the virtual
\* path that is waiting for the mutex can take it unless another request has it.
C13_BlockedOpen ==
    pc["loop"] \in {"open", "opening"} =>
        /\ lock \notin Refreshers
        /\ <<lastMod, bytes>> = lastFill
        /\ \A c \in Clients :
              (rpc[c] = "lock" /\ \A d \in Clients : lock # d) => ENABLED ServeLock(c)

\* The poll loop is blocked in os.Open while a request is answered from the cache.
C13_Witness ==
    \E c \in Clients :
        /\ BlockedOpen
        /\ lock = c
        /\ FullBody(c)
        /\ resp[c].body = lastFill[2]

\* C14 (the poll cycle closes its handle): the process never holds more than
\* one open read handle on the FIFO.
C14_OneHandle == handles <= 1

\* The critical sections: of cache, from content.Lock() to content.Unlock(),
\* and of serve, the same.
InFill(a) == pc[a] \in {"stamp", "truncate", "read", "unlock"}
InSnapshot(c) == rpc[c] \in {"stat", "content", "unlock"}

Stream == IF fifo = <<>> THEN stdin ELSE buf
\* The payloads i to j of the writers, one after the other.
RECURSIVE Concat(_, _)
Concat(i, j) == IF i > j THEN <<>> ELSE Payload(i) \o Concat(i + 1, j)
\* What a stream can hold from one end-of-stream to the next.
WholeReads ==
    IF fifo = <<>> THEN {Payload(0)}
    ELSE {Concat(i, j) : i \in 1..NumWrites, j \in 1..NumWrites} \ {<<>>}

\* C16 (a fill replaces, never appends): a fill empties the buffer before
\* it reads, and then the bytes only grow by what the fill takes from its
\* stream, so at end-of-stream they are what the stream held and nothing of
\* an earlier version; the bytes change in no other way.  The modification
\* time is only set by the holder of the mutex, at the start of its fill,
\* never to an earlier time, and a completed fill leaves that time.
C16_FillReplaces ==
    [][/\ \A a \in Refreshers :
            /\ (pc[a] = "truncate" /\ pc'[a] = "read") => bytes' = <<>>
            /\ (pc[a] = "read" /\ bytes' # bytes) =>
                  /\ bytes' \o Stream' = bytes \o Stream
                  /\ Len(bytes') > Len(bytes)
            /\ (pc[a] = "read" /\ pc'[a] = "unlock") => bytes \in WholeReads
       /\ bytes' # bytes => \E a \in Refreshers : lock = a /\ pc[a] \in {"truncate", "read"}
       /\ lastMod' # lastMod => \E a \in Refreshers : lock = a /\ pc[a] = "stamp"
       /\ lastMod' >= lastMod
       /\ lastFill' # lastFill =>
            /\ lastFill' = <<lastMod, bytes>>
            /\ lastFill'[1] >= lastFill[1]
            /\ lastFill'[1] # 0]_vars

\* The second fill has read its payload: the cache held the first before.
C16_Witness ==
    /\ pc["loop"] = "unlock"
    /\ lastFill[2] = Payload(1)
    /\ bytes = Payload(2)
    /\ lastMod > lastFill[1]

\* C17 (other paths leave the cache alone): while the process runs, a
\* handler only waits for the mutex, holds it or reads the cache when its
\* request is for the virtual path; a request for any other path is answered in the step it arrives,
\* whoever holds the mutex, by http.NotFound or http.ServeFile, and neither
\* that step nor the handler's return changes the mutex, the bytes or the
\* modification time of the cache.
C17_OtherPathsFrame ==
    [][\A c \in Clients :
        /\ (Running /\ (lock = c \/ rpc[c] \in {"lock", "stat", "content", "unlock"}
                                  \/ FromCache(c)))'
              => (rq[c] = path)'
        /\ (rpc[c] = "idle" /\ rq'[c] # <<>> /\ rq'[c] # path) =>
              /\ rpc'[c] = "written"
              /\ resp'[c].src \in {"notfound", "file"}
              /\ UNCHANGED <<lock, bytes, lastMod>>
        /\ (rpc[c] = "written" /\ rpc'[c] # "written") => UNCHANGED <<lock, bytes, lastMod>>]_vars

\* A request for a file is answered while a fill holds the mutex, blocked in
\* its read, and a request for the virtual path waits for it.
C17_Witness ==
    \E c, d \in Clients :
        /\ Elsewhere(c)
        /\ resp[c].src = "file"
        /\ rpc[d] = "lock"
        /\ lock = "loop"
        /\ BlockedRead

\* C18 (no stale not-modified): once a fill has completed while the listener
\* was up with an earlier version in the cache, a GET for the virtual path
\* that carries the Last-Modified of that earlier version as its
\* If-Modified-Since is answered with the full body of the new version.
C18_NoStaleNotModified ==
    [][(listening /\ lastFill[1] # 0 /\ lastFill' # lastFill) =>
          ServeContent(lastFill'[1], lastFill'[2], "GET",
                       Truncate(lastFill[1]), FALSE).status = 200]_vars

\* A refresher is in cache(r), waiting for the mutex or inside.
Filling(a) == pc[a] = "lock" \/ InFill(a)

\* A request for the virtual path is in hand and not answered yet.
Pending(c) == rpc[c] \in {"lock", "stat", "content"}

C20_FailedFillUnseen ==
    ioerr = "read" =>
        /\ ~Running
        /\ status = 1
        /\ lock \in Refreshers
        /\ pc[lock] = "read"
        /\ \A c \in Clients : ~Answered(c) /\ rpc[c] = "idle"

\* The second fill has failed after it had stamped and truncated the cache
\* that held the first payload.
C20_Witness ==
    /\ ioerr = "read"
    /\ status = 1
    /\ lock = "loop"
    /\ lastFill[2] = Payload(1)
    /\ bytes # lastFill[2]
    /\ lastMod > lastFill[1]
    /\ listening

====
